---------------------------- MODULE Spec2Model ----------------------------
(***************************************************************************)
(* A model of the Hessian-free optimizer of hessianfree/optimizer.py:      *)
(* the constructor's validation, and one optimization step (forward pass,  *)
(* cg on the damped system, warm start, damping adaptation, cg             *)
(* backtracking, line search, parameter update) as a sequence of phases.   *)
(*                                                                         *)
(* Numbers are exact rationals <<n, d>> (d > 0, lowest terms); vectors are *)
(* pairs of rationals (a two-parameter model).  The quotient computed by   *)
(* _adapt_damping keeps the IEEE outcomes of a division by zero.           *)
(***************************************************************************)
EXTENDS Integers, Sequences, FiniteSets, TLC

(***************************************************************************)
(* Exact rational arithmetic                                               *)
(***************************************************************************)
Abs(n) == IF n < 0 THEN -n ELSE n

RECURSIVE GCD(_, _)
GCD(a, b) == IF b = 0 THEN a ELSE GCD(b, a % b)

\* the rational n/d in lowest terms with a positive denominator (d # 0)
Norm(n, d) ==
    LET g == GCD(Abs(n), Abs(d))
        s == IF d < 0 THEN -1 ELSE 1
    IN  IF n = 0 THEN <<0, 1>> ELSE <<s * (n \div g), (Abs(d)) \div g>>

R(n) == <<n, 1>>

RNeg(a) == <<-a[1], a[2]>>

RAdd(a, b) ==
    LET g == GCD(a[2], b[2])
    IN  Norm(a[1] * (b[2] \div g) + b[1] * (a[2] \div g), (a[2] \div g) * b[2])

RSub(a, b) == RAdd(a, RNeg(b))

RMul(a, b) ==
    LET g1 == GCD(Abs(a[1]), b[2])
        g2 == GCD(Abs(b[1]), a[2])
    IN  IF a[1] = 0 \/ b[1] = 0 THEN <<0, 1>>
        ELSE <<(a[1] \div g1) * (b[1] \div g2), (a[2] \div g2) * (b[2] \div g1)>>

\* a / b for b # 0
RDiv(a, b) ==
    IF b[1] < 0 THEN RMul(a, <<-b[2], -b[1]>>) ELSE RMul(a, <<b[2], b[1]>>)

RLt(a, b) ==
    LET g == GCD(a[2], b[2])
    IN  a[1] * (b[2] \div g) < b[1] * (a[2] \div g)

RLe(a, b) == ~RLt(b, a)

\* a variant without the factor 1/2
RWhole == <<1, 1>>

RHalf == <<1, 2>>

(***************************************************************************)
(* Vectors of two rationals                                                *)
(***************************************************************************)
ZeroVec == <<R(0), R(0)>>

IntVec(a, b) == <<R(a), R(b)>>

VAdd(x, y) == <<RAdd(x[1], y[1]), RAdd(x[2], y[2])>>

VSub(x, y) == <<RSub(x[1], y[1]), RSub(x[2], y[2])>>

VScale(c, x) == <<RMul(c, x[1]), RMul(c, x[2])>>

Dot(x, y) == RAdd(RMul(x[1], y[1]), RMul(x[2], y[2]))

\* a symmetric 2x2 matrix <<h11, h12, h22>> of rationals times a vector
MatVec(H, x) ==
    <<RAdd(RMul(H[1], x[1]), RMul(H[2], x[2])),
      RAdd(RMul(H[2], x[1]), RMul(H[3], x[2]))>>


(***************************************************************************)
(* Optional values: <<>> is Python's None, <<v>> is the value v            *)
(***************************************************************************)
None == <<>>

Some(v) == <<v>>

IsNone(o) == Len(o) = 0

Val(o) == o[1]

Last(s) == s[Len(s)]

(***************************************************************************)
(* The preconditioned cg-method (hessianfree.cg.cg)                        *)
(***************************************************************************)
\* The reciprocals of cg's default tolerances tol = 1e-5 and atol = 1e-6
TolInv == 100000

AtolInv == 1000000

\* The threshold of Martens' early-stopping criterion
MartensEps == <<1, 10000>>

\* floor(d * n / T) for naturals d, n and T > 0, without forming d * n
MulDivFloor(d, n, T) == (d \div T) * n + ((d % T) * n) \div T

\* a <= c / T^2 for rationals a, c >= 0 and an integer T > 0
LeqOverSq(a, c, T) ==
    LET g == GCD(a[2], c[2])
    IN  a[1] * (c[2] \div g) <= MulDivFloor(a[2] \div g, c[1], T) \div T

\* ||r|| <= max(tol * ||b||, atol), with tol = 1/tolInv and atol = 1/atolInv
Converged(r, b, tolInv, atolInv) ==
    \/ LeqOverSq(Dot(r, r), Dot(b, b), tolInv)
    \/ LeqOverSq(Dot(r, r), R(1), atolInv)

\* the matrix-vector product A(x) of the system that cg solves: the
\* curvature-vector product plus the damping term
DampedMvp(H, damping, x) == VAdd(MatVec(H, x), VScale(damping, x))

\* the preconditioner M(r): M = None ([kind |-> "none"]) and the identity
\* function leave r as it is, [kind |-> "matrix", D |-> D] multiplies by D
NoM == [kind |-> "none"]

IdentityM == [kind |-> "identity"]

\* a variant in which M = None leaves the preconditioned residual at zero
ApplyMNoneAsZero(M, r) ==
    IF M.kind = "none" THEN ZeroVec
    ELSE IF M.kind = "identity" THEN r ELSE MatVec(M.D, r)

ApplyM(M, r) ==
    IF M.kind = "none" \/ M.kind = "identity" THEN r ELSE MatVec(M.D, r)

\* the automatic grid (store_x_at_iters = None) keeps every iteration up to
\* the iteration counts of this model; an explicit grid is a set of indices
InGrid(store, i) == IF IsNone(store) THEN TRUE ELSE i \in Val(store)

\* Martens' criterion at iteration i >= 1, with mh = <<m_0, ..., m_i>>
MartensStop(mh, i) ==
    LET k  == IF i \div 10 > 1 THEN i \div 10 ELSE 1
        mi == mh[i + 1]
        mk == mh[i + 1 - k]
    IN  /\ i >= k
        /\ RLt(mi, R(0))
        /\ RLt(RDiv(RSub(mi, mk), mi), MartensEps)

\* a variant that returns only the iterates of the grid
CgFinishStoredOnly(s) == [x |-> s.xs, m |-> s.ms, iters |-> s.i]

\* the trajectory returned: the stored iterates, then the last computed one
\* when the grid did not store it
CgFinish(s) ==
    IF s.stored THEN [x |-> s.xs, m |-> s.ms, iters |-> s.i]
    ELSE [x |-> Append(s.xs, s.x), m |-> Append(s.ms, s.m), iters |-> s.i]

RECURSIVE CgLoop(_, _, _, _, _, _, _, _, _, _)
CgLoop(H, damping, b, M, maxIter, tolInv, atolInv, martens, store, s) ==
    IF Converged(s.r, b, tolInv, atolInv) THEN CgFinish(s)
    ELSE IF s.i >= maxIter THEN CgFinish(s)
    ELSE IF martens /\ s.i >= 1 /\ MartensStop(s.mh, s.i) THEN CgFinish(s)
    ELSE
      LET Ap  == DampedMvp(H, damping, s.p)
          pAp == Dot(s.p, Ap)
      IN  IF pAp = R(0) \/ s.rz = R(0) THEN CgFinish(s)
          ELSE
            LET alpha == RDiv(s.rz, pAp)
                x1    == VAdd(s.x, VScale(alpha, s.p))
                r1    == VSub(s.r, VScale(alpha, Ap))
                z1    == ApplyM(M, r1)
                rz1   == Dot(r1, z1)
                beta  == RDiv(rz1, s.rz)
                p1    == VAdd(z1, VScale(beta, s.p))
                m1    == RSub(s.m, RMul(RHalf, RMul(alpha, s.rz)))
                keep  == InGrid(store, s.i + 1)
            IN  CgLoop(H, damping, b, M, maxIter, tolInv, atolInv, martens, store,
                       [x |-> x1, r |-> r1, p |-> p1, rz |-> rz1, m |-> m1,
                        i |-> s.i + 1,
                        mh |-> Append(s.mh, m1),
                        xs |-> IF keep THEN Append(s.xs, x1) ELSE s.xs,
                        ms |-> IF keep THEN Append(s.ms, m1) ELSE s.ms,
                        stored |-> keep])

\* a variant of cg that takes b as the first residual, also for x0 # 0
cgInitialResidualB(H, damping, b, x0, M, max_iter, tolInv, atolInv, martens, store) ==
    LET xinit == IF IsNone(x0) THEN ZeroVec ELSE Val(x0)
        r0    == b
        z0    == ApplyM(M, r0)
        m0    == RNeg(RMul(RHalf, Dot(xinit, VAdd(r0, b))))
        cap   == IF IsNone(max_iter) THEN Len(b) ELSE Val(max_iter)
    IN  CgLoop(H, damping, b, M, cap, tolInv, atolInv, martens, store,
               [x |-> xinit, r |-> r0, p |-> z0, rz |-> Dot(r0, z0), m |-> m0,
                i |-> 0, mh |-> <<m0>>, xs |-> <<xinit>>, ms |-> <<m0>>,
                stored |-> TRUE])

\* cg(A, b, x0, M, max_iter, tol, atol, martens_conv_crit, store_x_at_iters)
\* for A = x -> H x + damping * x; max_iter = None is the dimension of b
cg(H, damping, b, x0, M, max_iter, tolInv, atolInv, martens, store) ==
    LET xinit == IF IsNone(x0) THEN ZeroVec ELSE Val(x0)
        r0    == IF IsNone(x0) THEN b ELSE VSub(b, DampedMvp(H, damping, xinit))
        z0    == ApplyM(M, r0)
        m0    == RNeg(RMul(RHalf, Dot(xinit, VAdd(r0, b))))
        cap   == IF IsNone(max_iter) THEN Len(b) ELSE Val(max_iter)
    IN  CgLoop(H, damping, b, M, cap, tolInv, atolInv, martens, store,
               [x |-> xinit, r |-> r0, p |-> z0, rz |-> Dot(r0, z0), m |-> m0,
                i |-> 0, mh |-> <<m0>>, xs |-> <<xinit>>, ms |-> <<m0>>,
                stored |-> TRUE])


(***************************************************************************)
(* The objective (the caller's `forward`): f(p) = 1/2 p.Qp + c.p           *)
(***************************************************************************)
Forward(F, p) == RAdd(RMul(RHalf, Dot(p, MatVec(F.Q, p))), Dot(F.c, p))

\* a variant of tfunc that leaves the parameters at the backup
TrialParamsBackupOnly(params_vec, step) == params_vec

\* tfunc(step): the parameters are set to params_vec + step, and the loss
\* there is returned
TrialParams(params_vec, step) == VAdd(params_vec, step)

tfunc(F, params_vec, step) == Forward(F, TrialParams(params_vec, step))

(***************************************************************************)
(* HessianFree._adapt_damping                                              *)
(***************************************************************************)
\* The quotient a / b of a float by a tensor: a division by zero raises
\* nothing and gives nan or an infinity (x - x is +0)
FDiv(a, b) ==
    IF b # R(0) THEN [k |-> "num", v |-> RDiv(a, b)]
    ELSE IF a = R(0) THEN [k |-> "nan"]
    ELSE IF RLt(R(0), a) THEN [k |-> "pinf"]
    ELSE [k |-> "ninf"]

\* rho < c and rho > c for a finite c: every comparison with nan is false
FLt(rho, c) ==
    CASE rho.k = "num"  -> RLt(rho.v, c)
      [] rho.k = "ninf" -> TRUE
      [] OTHER          -> FALSE

FGt(rho, c) ==
    CASE rho.k = "num"  -> RLt(c, rho.v)
      [] rho.k = "pinf" -> TRUE
      [] OTHER          -> FALSE

ReductionRatio(f_0, f_step, m_0, m_step) ==
    FDiv(RSub(f_step, f_0), RSub(m_step, m_0))

\* a variant of the heuristic that also increases the damping at rho = 0.25
AdaptedDampingInclusive(rho, damping) ==
    IF ~FGt(rho, <<1, 4>>) /\ rho.k # "nan" THEN RMul(damping, <<3, 2>>)
    ELSE IF FGt(rho, <<3, 4>>) THEN RMul(damping, <<2, 3>>)
    ELSE damping

\* the damping after the Levenberg-Marquardt heuristic
AdaptedDamping(rho, damping) ==
    IF FLt(rho, <<1, 4>>) THEN RMul(damping, <<3, 2>>)
    ELSE IF FGt(rho, <<3, 4>>) THEN RMul(damping, <<2, 3>>)
    ELSE damping

\* a variant of the warning that is silent for -1 <= rho < 0
NegativeRhoWarningBelowMinusOne(rho) == FLt(rho, R(-1))

\* the warning of a negative reduction ratio
NegativeRhoWarning(rho) == FLt(rho, R(0))

(***************************************************************************)
(* cg_efficient_backtracking and simple_linesearch                         *)
(***************************************************************************)
\* the objective at every checkpoint of the trajectory
CheckpointValues(F, params_vec, steps_list) ==
    [i \in 1..Len(steps_list) |-> tfunc(F, params_vec, steps_list[i])]

\* the checkpoints with the lowest objective value
BestCheckpoints(F, params_vec, steps_list) ==
    LET fv == CheckpointValues(F, params_vec, steps_list)
    IN  {i \in 1..Len(steps_list) :
            \A j \in 1..Len(steps_list) : RLe(fv[i], fv[j])}

\* the constant c of the sufficient-decrease condition and the factor of the
\* geometric backtracking
LsC == <<1, 100>>

LsBeta == <<1, 2>>

\* the cap on the number of multipliers that the line search tries
LsMaxAttempts == 3

RECURSIVE RPow(_, _)
RPow(a, n) == IF n = 0 THEN R(1) ELSE RMul(a, RPow(a, n - 1))

\* the k-th multiplier tried (k = 0, 1, ...)
LsAlpha(init_alpha, k) == RMul(init_alpha, RPow(LsBeta, k))

\* f(alpha * step) <= f(0) + c * alpha * (f_grad_0 . step)
SufficientDecrease(F, params_vec, f_grad_0, step, alpha) ==
    RLe(tfunc(F, params_vec, VScale(alpha, step)),
        RAdd(tfunc(F, params_vec, ZeroVec),
             RMul(LsC, RMul(alpha, Dot(f_grad_0, step)))))

\* the attempts whose multiplier satisfies the condition
LsAccepted(F, params_vec, f_grad_0, step, init_alpha) ==
    {k \in 0..(LsMaxAttempts - 1) :
        SufficientDecrease(F, params_vec, f_grad_0, step, LsAlpha(init_alpha, k))}

Min(S) == CHOOSE x \in S : \A y \in S : x <= y

\* the number of multipliers tried: up to the first accepted one, or all
LsAttempts(F, params_vec, f_grad_0, step, init_alpha) ==
    LET acc == LsAccepted(F, params_vec, f_grad_0, step, init_alpha)
    IN  IF acc = {} THEN LsMaxAttempts ELSE Min(acc) + 1

\* the multipliers the search may return: the first accepted one; when none
\* is accepted within the cap, a fallback (the smallest multiplier tried, or
\* the initial one)
LsResults(F, params_vec, f_grad_0, step, init_alpha) ==
    LET acc == LsAccepted(F, params_vec, f_grad_0, step, init_alpha)
    IN  IF acc = {}
        THEN {LsAlpha(init_alpha, LsMaxAttempts - 1), init_alpha}
        ELSE {LsAlpha(init_alpha, Min(acc))}


(***************************************************************************)
(* The inputs of the model                                                 *)
(***************************************************************************)
\* the number of optimization steps taken
MaxSteps == 3

\* the arguments of the constructor
CurvatureOpts == {"hessian", "ggn", "fisher"}

Dampings == {R(-1), R(0), R(1)}

CgMaxIters == {None, Some(0), Some(1), Some(2)}

LearningRates == {R(-1), R(0), R(1)}

CgDecays == {<<1, 2>>}

ParamGroups == {1, 2}

ConstructorArgs ==
    [curvature_opt : CurvatureOpts, damping : Dampings,
     adapt_damping : BOOLEAN, cg_max_iter : CgMaxIters,
     cg_decay_x0 : CgDecays, use_cg_backtracking : BOOLEAN,
     lr : LearningRates, use_linesearch : BOOLEAN, groups : ParamGroups]

\* the parameters of the model before the first step
InitParams == IntVec(1, -1)

Diag(a, b) == <<R(a), R(0), R(b)>>

Linear(a, b) == [Q |-> Diag(0, 0), c |-> IntVec(a, b)]

Quadratic(q11, q12, q22, c1, c2) ==
    [Q |-> <<R(q11), R(q12), R(q22)>>, c |-> IntVec(c1, c2)]

StepArg(F, g, H) == [forward |-> F, grad |-> g, mvp |-> H]

\* What the caller passes to the first step: the objective `forward`, the
\* gradient `grad` and the curvature matrix of `mvp` (positive definite,
\* singular and indefinite ones).  The gradient and the curvature need not be
\* those of the objective (acc_step evaluates them on other mini-batches).
FirstStepArgs ==
    { StepArg(Linear(-1, 0), IntVec(-8, 0), Diag(3, 1)),
      StepArg(Linear(-2, 0), IntVec(-8, 0), Diag(3, 1)),
      StepArg(Linear(-3, 0), IntVec(-8, 0), Diag(3, 1)),
      StepArg(Linear(1, 0), IntVec(-8, 0), Diag(3, 1)),
      StepArg(Linear(1, 2), IntVec(0, 0), Diag(3, 1)),
      StepArg(Linear(-1, -1), IntVec(-2, -1), Diag(3, -2)),
      StepArg([Q |-> Diag(0, 1), c |-> <<<<-1, 10>>, R(1)>>],
              IntVec(-2, -1), Diag(3, -2)),
      StepArg(Quadratic(2, 1, 3, -1, -2), IntVec(0, -4), <<R(2), R(1), R(3)>>),
      StepArg(Quadratic(1, 0, 2, -3, 4), IntVec(-2, 2), Diag(1, 2)),
      StepArg(Quadratic(3, 0, 0, -7, 0), IntVec(-4, 0), Diag(0, 0)) }

\* What the caller passes to a later step, whose cg-run starts from the warm
\* start: the curvature-vector product is zero, so that the system matrix is
\* damping * I and the rationals of the cg-run and of the parameters stay
\* small (with a damping of zero the cg-run breaks down at once)
LaterStepArgs ==
    { StepArg(Linear(-1, 0), IntVec(-8, 0), Diag(0, 0)),
      StepArg(Linear(1, 2), IntVec(0, 0), Diag(0, 0)),
      StepArg(Quadratic(3, 0, 0, -7, 0), IntVec(-4, 0), Diag(0, 0)) }

StepArgs(warm_start) ==
    IF IsNone(warm_start) THEN FirstStepArgs ELSE LaterStepArgs

(***************************************************************************)
(* The state                                                               *)
(***************************************************************************)
VARIABLES
    pc,          \* "new", "rejected", "idle", or the phase of the step
    raised,      \* the check of the constructor that raised, or "none"
    opt,         \* the optimizer's attributes and group defaults
    damping,     \* self._group["damping"]
    x0,          \* self.state["x0"]
    params,      \* the trainable parameters of the model
    steps,       \* the number of completed steps
    args,        \* forward, grad and mvp of the step
    traj,        \* x_iters and m_iters of the step's cg-run
    step_vec,    \* the update step
    params_vec,  \* the backup of the parameters
    best,        \* best_cg_iter (1-based), 0 when there was no backtracking
    lr,          \* the multiplier of the parameter update
    hist         \* what happened in the step (bookkeeping of the model)

vars == <<pc, raised, opt, damping, x0, params, steps, args, traj, step_vec,
          params_vec, best, lr, hist>>

NoTraj == [x |-> <<>>, m |-> <<>>, iters |-> 0]

NoAdapt == [ran |-> FALSE]

\* hist: the phases run (log), the calls of forward by phase (evals), the
\* calls of the line search (ls_calls), the warnings (warned), the arguments
\* and the effect of _adapt_damping (adapt), the number of writes of x0
\* (x0_writes), the parameters and the damping at the start of the step
\* (params0, damping0), the final cg-iterate, the update step and the
\* multiplier of the step before (prev_final, prev_step_vec, prev_lr), and
\* the initial guess and the damping passed to cg (cg_x0, cg_damping), and
\* the damping passed to diag_EF_preconditioner (precond_damping)
NoHist ==
    [log |-> <<>>, evals |-> [fwd |-> 0, adapt |-> 0, bt |-> 0, ls |-> 0],
     ls_calls |-> 0, warned |-> FALSE, adapt |-> NoAdapt, x0_writes |-> 0,
     params0 |-> InitParams, damping0 |-> R(0), prev_final |-> None,
     prev_step_vec |-> None, prev_lr |-> None,
     cg_x0 |-> None, cg_damping |-> R(0), precond_damping |-> None]

NoArgs == [forward |-> Linear(0, 0), grad |-> ZeroVec, mvp |-> Diag(0, 0)]

NoOpt ==
    [curvature_opt |-> "", cg_max_iter |-> None, cg_decay_x0 |-> R(0),
     use_cg_backtracking |-> FALSE, lr |-> R(0), use_linesearch |-> FALSE,
     adapt_damping |-> FALSE, warned |-> FALSE,
     asked |-> [damping |-> R(0), adapt_damping |-> FALSE]]

Init ==
    /\ pc = "new"
    /\ raised = "none"
    /\ opt = NoOpt
    /\ damping = R(0)
    /\ x0 = None
    /\ params = InitParams
    /\ steps = 0
    /\ args = NoArgs
    /\ traj = NoTraj
    /\ step_vec = ZeroVec
    /\ params_vec = ZeroVec
    /\ best = 0
    /\ lr = R(0)
    /\ hist = NoHist

(***************************************************************************)
(* HessianFree.__init__                                                    *)
(***************************************************************************)
\* a variant of the checks that lets cg_max_iter = 0 pass
ConfigErrorCapBelowZero(a) ==
    IF a.curvature_opt \notin {"hessian", "ggn"} THEN "curvature_opt"
    ELSE IF RLt(a.damping, R(0)) THEN "damping"
    ELSE IF ~IsNone(a.cg_max_iter) /\ Val(a.cg_max_iter) < 0 THEN "cg_max_iter"
    ELSE IF RLt(a.lr, R(0)) THEN "lr"
    ELSE IF a.groups # 1 THEN "param_groups"
    ELSE "none"

\* a variant of the checks without the one of the damping
ConfigErrorDampingUnchecked(a) ==
    IF a.curvature_opt \notin {"hessian", "ggn"} THEN "curvature_opt"
    ELSE IF ~IsNone(a.cg_max_iter) /\ Val(a.cg_max_iter) < 1 THEN "cg_max_iter"
    ELSE IF RLt(a.lr, R(0)) THEN "lr"
    ELSE IF a.groups # 1 THEN "param_groups"
    ELSE "none"

\* the first check of the constructor that raises ValueError, or "none"
ConfigError(a) ==
    IF a.curvature_opt \notin {"hessian", "ggn"} THEN "curvature_opt"
    ELSE IF RLt(a.damping, R(0)) THEN "damping"
    ELSE IF ~IsNone(a.cg_max_iter) /\ Val(a.cg_max_iter) < 1 THEN "cg_max_iter"
    ELSE IF RLt(a.lr, R(0)) THEN "lr"
    ELSE IF a.groups # 1 THEN "param_groups"
    ELSE "none"

\* a variant that keeps the adaptation on for a damping of zero
EffectiveAdaptAsAsked(a) == a.adapt_damping

\* self.adapt_damping: switched off for a damping of zero
EffectiveAdapt(a) ==
    IF a.damping = R(0) /\ a.adapt_damping THEN FALSE ELSE a.adapt_damping

\* the warning that the damping won't get adapted
DampingWarning(a) == a.damping = R(0) /\ a.adapt_damping

\* opt.asked keeps the damping and adapt_damping arguments, and opt.warned
\* the warning, as bookkeeping of the model
Construct ==
    /\ pc = "new"
    /\ \E a \in ConstructorArgs :
         IF ConfigError(a) # "none"
         THEN /\ pc' = "rejected"
              /\ raised' = ConfigError(a)
              /\ UNCHANGED <<opt, damping>>
         ELSE /\ pc' = "idle"
              /\ raised' = "none"
              /\ opt' = [curvature_opt |-> a.curvature_opt,
                         cg_max_iter |-> a.cg_max_iter,
                         cg_decay_x0 |-> a.cg_decay_x0,
                         use_cg_backtracking |-> a.use_cg_backtracking,
                         lr |-> a.lr,
                         use_linesearch |-> a.use_linesearch,
                         adapt_damping |-> EffectiveAdapt(a),
                         warned |-> DampingWarning(a),
                         asked |-> [damping |-> a.damping,
                                    adapt_damping |-> a.adapt_damping]]
              /\ damping' = a.damping
    /\ UNCHANGED <<x0, params, steps, args, traj, step_vec, params_vec, best,
                   lr, hist>>


(***************************************************************************)
(* HessianFree.step, phase by phase                                        *)
(***************************************************************************)
\* The forward pass and the set-up of the linear system
StepBegin ==
    /\ pc = "idle"
    /\ steps < MaxSteps
    /\ \E a \in StepArgs(x0) : args' = a
    /\ hist' = [NoHist EXCEPT
                  !.log = <<"forward">>,
                  !.evals.fwd = 1,
                  !.params0 = params,
                  !.damping0 = damping,
                  !.prev_final = IF steps = 0 THEN None ELSE Some(Last(traj.x)),
                  !.prev_step_vec = IF steps = 0 THEN None ELSE Some(step_vec),
                  !.prev_lr = IF steps = 0 THEN None ELSE Some(lr)]
    /\ traj' = NoTraj
    /\ step_vec' = ZeroVec
    /\ params_vec' = ZeroVec
    /\ best' = 0
    /\ lr' = R(0)
    /\ pc' = "cg"
    /\ UNCHANGED <<raised, opt, damping, x0, params, steps>>

\* a variant of the right-hand side without the minus sign
RhsUnnegated(grad) == grad

\* the right-hand side of the linear system
Rhs(grad) == VScale(R(-1), grad)

\* a variant of the cg-run that does not pass the cap on the iterations
StepCgUncapped(H, d, grad, x_init, max_iter) ==
    cg(H, d, Rhs(grad), x_init, NoM, None, TolInv, AtolInv, TRUE, None)

\* a variant of the cg-run on the system without the damping term
StepCgUndamped(H, d, grad, x_init, max_iter) ==
    cg(H, R(0), Rhs(grad), x_init, NoM, max_iter, TolInv, AtolInv, TRUE, None)

\* the cg-run of the step
StepCg(H, d, grad, x_init, max_iter) ==
    cg(H, d, Rhs(grad), x_init, NoM, max_iter, TolInv, AtolInv, TRUE, None)

RunCg ==
    /\ pc = "cg"
    /\ traj' = StepCg(args.mvp, damping, args.grad, x0, opt.cg_max_iter)
    /\ step_vec' = Last(traj'.x)
    /\ hist' = [hist EXCEPT !.log = Append(@, "cg"),
                            !.cg_x0 = x0, !.cg_damping = damping]
    /\ pc' = "x0"
    /\ UNCHANGED <<raised, opt, damping, x0, params, steps, args, params_vec,
                   best, lr>>

\* a variant of the warm start that applies the decay twice
NextX0DecayedTwice(decay, x_iters) == VScale(decay, VScale(decay, Last(x_iters)))

\* the initialization of the next cg-run
NextX0(decay, x_iters) == VScale(decay, Last(x_iters))

\* _set_x0, and the backup of the parameters
SetX0 ==
    /\ pc = "x0"
    /\ x0' = Some(NextX0(opt.cg_decay_x0, traj.x))
    /\ params_vec' = params
    /\ hist' = [hist EXCEPT !.log = Append(@, "x0"), !.x0_writes = @ + 1]
    /\ pc' = "adapt"
    /\ UNCHANGED <<raised, opt, damping, params, steps, args, traj, step_vec,
                   best, lr>>

\* the adaptation of the damping
AdaptPhase ==
    /\ pc = "adapt"
    /\ IF opt.adapt_damping
       THEN LET f_0    == tfunc(args.forward, params_vec, traj.x[1])
                f_step == tfunc(args.forward, params_vec, Last(traj.x))
                m_0    == traj.m[1]
                m_step == Last(traj.m)
                rho    == ReductionRatio(f_0, f_step, m_0, m_step)
            IN  /\ damping' = AdaptedDamping(rho, damping)
                /\ params' = TrialParams(params_vec, Last(traj.x))
                /\ hist' = [hist EXCEPT
                              !.log = Append(@, "adapt"),
                              !.evals.adapt = 2,
                              !.warned = NegativeRhoWarning(rho),
                              !.adapt = [ran |-> TRUE, f_0 |-> f_0,
                                         f_step |-> f_step, m_0 |-> m_0,
                                         m_step |-> m_step, before |-> damping]]
       ELSE UNCHANGED <<damping, params, hist>>
    /\ pc' = "backtrack"
    /\ UNCHANGED <<raised, opt, x0, steps, args, traj, step_vec, params_vec,
                   best, lr>>

\* a variant of the backtracking that ignores use_cg_backtracking
BacktrackPhaseAlways ==
    /\ pc = "backtrack"
    /\ \E b \in BestCheckpoints(args.forward, params_vec, traj.x),
          last \in 1..Len(traj.x) :
           /\ best' = b
           /\ step_vec' = traj.x[b]
           /\ params' = TrialParams(params_vec, traj.x[last])
           /\ hist' = [hist EXCEPT !.log = Append(@, "backtrack"),
                                   !.evals.bt = Len(traj.x)]
    /\ pc' = "linesearch"
    /\ UNCHANGED <<raised, opt, damping, x0, steps, args, traj, params_vec, lr>>

\* the backtracking over the checkpoints of the cg-run; the objective is
\* evaluated at every checkpoint, the one evaluated last is `last`
BacktrackPhase ==
    /\ pc = "backtrack"
    /\ IF opt.use_cg_backtracking
       THEN \E b \in BestCheckpoints(args.forward, params_vec, traj.x),
               last \in 1..Len(traj.x) :
                /\ best' = b
                /\ step_vec' = traj.x[b]
                /\ params' = TrialParams(params_vec, traj.x[last])
                /\ hist' = [hist EXCEPT !.log = Append(@, "backtrack"),
                                        !.evals.bt = Len(traj.x)]
       ELSE UNCHANGED <<best, step_vec, params, hist>>
    /\ pc' = "linesearch"
    /\ UNCHANGED <<raised, opt, damping, x0, steps, args, traj, params_vec, lr>>

\* the learning rate: constant, or from the line search
LineSearchPhase ==
    /\ pc = "linesearch"
    /\ IF ~opt.use_linesearch
       THEN /\ lr' = opt.lr
            /\ UNCHANGED <<params, hist>>
       ELSE LET n == LsAttempts(args.forward, params_vec, args.grad, step_vec,
                                opt.lr)
            IN  /\ \E alpha \in LsResults(args.forward, params_vec, args.grad,
                                          step_vec, opt.lr) : lr' = alpha
                /\ params' = TrialParams(params_vec,
                                 VScale(LsAlpha(opt.lr, n - 1), step_vec))
                /\ hist' = [hist EXCEPT !.log = Append(@, "linesearch"),
                                        !.evals.ls = n + 1,
                                        !.ls_calls = @ + 1]
    /\ pc' = "update"
    /\ UNCHANGED <<raised, opt, damping, x0, steps, args, traj, step_vec,
                   params_vec, best>>

\* a variant of the update that adds the step unscaled
NewParamsUnscaled(backup, rate, step) == VAdd(backup, step)

\* the parameter update
NewParams(backup, rate, step) == VAdd(backup, VScale(rate, step))

\* a variant of the update that adds the step to the parameters that the
\* last call of tfunc left
CommitFromCurrent ==
    /\ pc = "update"
    /\ params' = NewParams(params, lr, step_vec)
    /\ hist' = [hist EXCEPT !.log = Append(@, "update")]
    /\ steps' = steps + 1
    /\ pc' = "idle"
    /\ UNCHANGED <<raised, opt, damping, x0, args, traj, step_vec, params_vec,
                   best, lr>>

Commit ==
    /\ pc = "update"
    /\ params' = NewParams(params_vec, lr, step_vec)
    /\ hist' = [hist EXCEPT !.log = Append(@, "update")]
    /\ steps' = steps + 1
    /\ pc' = "idle"
    /\ UNCHANGED <<raised, opt, damping, x0, args, traj, step_vec, params_vec,
                   best, lr>>

(***************************************************************************)
(* HessianFree.get_preconditioner                                          *)
(***************************************************************************)
\* a variant that clears the damping of the optimizer
GetPreconditionerClearingDamping ==
    /\ pc = "idle"
    /\ hist' = [hist EXCEPT !.precond_damping = Some(damping)]
    /\ damping' = R(0)
    /\ UNCHANGED <<pc, raised, opt, x0, params, steps, args, traj, step_vec,
                   params_vec, best, lr>>

\* the wrapper of diag_EF_preconditioner, called between steps: it passes
\* the damping of the optimizer on
GetPreconditioner ==
    /\ pc = "idle"
    /\ hist' = [hist EXCEPT !.precond_damping = Some(damping)]
    /\ UNCHANGED <<pc, raised, opt, damping, x0, params, steps, args, traj,
                   step_vec, params_vec, best, lr>>

Next ==
    \/ Construct
    \/ StepBegin
    \/ RunCg
    \/ SetX0
    \/ AdaptPhase
    \/ BacktrackPhase
    \/ LineSearchPhase
    \/ Commit
    \/ GetPreconditioner

Spec == Init /\ [][Next]_vars

TypeOK ==
    /\ pc \in {"new", "rejected", "idle", "cg", "x0", "adapt", "backtrack",
               "linesearch", "update"}
    /\ steps \in 0..MaxSteps
    /\ Len(traj.x) = Len(traj.m)


(***************************************************************************)
(* Calls of cg on its own, as in tests/test_cg.py                          *)
(***************************************************************************)
\* the system matrices: positive definite, singular, indefinite and zero
CgMatrices ==
    { <<R(2), R(1), R(3)>>, <<R(4), R(1), R(1)>>, Diag(1, 2),
      Diag(1, 0), Diag(3, -2), Diag(0, 0) }

CgRhs == { IntVec(0, 4), IntVec(2, 1), IntVec(0, 0) }

CgInitialGuesses == { None, Some(IntVec(1, -1)) }

\* M: None, the identity function, and the multiplication by 2
CgPreconditioners == { NoM, IdentityM, [kind |-> "matrix", D |-> Diag(2, 2)] }

\* max_iter: unset, one iteration, and 10 * dim as in the tests
CgCaps == { None, Some(1), Some(20) }

\* the reciprocals of (tol, atol): 1e-3 of the tests, and the defaults
CgTolerances == { <<1000, 1000>>, <<TolInv, AtolInv>> }

\* store_x_at_iters: the automatic grid, the empty list and explicit lists
CgGrids == { None, Some({}), Some({1}), Some({0, 2}) }

\* calls from an initial guess close to the solution (0, 2) of the system
\* Diag(1, 2) x = (0, 4), where an iteration improves the model value little
CgNearSolutionInputs ==
    [A : {Diag(1, 2)}, b : {IntVec(0, 4)},
     x0 : {Some(<<<<1, 64>>, <<127, 64>>>>)}, M : CgPreconditioners,
     max_iter : CgCaps, tols : CgTolerances, martens_conv_crit : BOOLEAN,
     store_x_at_iters : CgGrids]

CgInputs ==
    [A : CgMatrices, b : CgRhs, x0 : CgInitialGuesses, M : CgPreconditioners,
     max_iter : CgCaps, tols : CgTolerances, martens_conv_crit : BOOLEAN,
     store_x_at_iters : CgGrids]
    \cup CgNearSolutionInputs

\* cg applied to the arguments `a`, with the preconditioner M
CgCall(a, M) ==
    cg(a.A, R(0), a.b, a.x0, M, a.max_iter, a.tols[1], a.tols[2],
       a.martens_conv_crit, a.store_x_at_iters)

\* the arguments of a call of cg are in `args`, its result goes to `traj`
CgInit ==
    /\ pc = "cg_input"
    /\ args \in CgInputs
    /\ traj = NoTraj
    /\ raised = "none"
    /\ opt = NoOpt
    /\ damping = R(0)
    /\ x0 = None
    /\ params = InitParams
    /\ steps = 0
    /\ step_vec = ZeroVec
    /\ params_vec = ZeroVec
    /\ best = 0
    /\ lr = R(0)
    /\ hist = NoHist

CgRun ==
    /\ pc = "cg_input"
    /\ traj' = CgCall(args, args.M)
    /\ pc' = "cg_done"
    /\ UNCHANGED <<raised, opt, damping, x0, params, steps, args, step_vec,
                   params_vec, best, lr, hist>>

CgNext == CgRun

CgSpec == CgInit /\ [][CgNext]_vars

(***************************************************************************)
(* Properties of the damping adaptation                                    *)
(***************************************************************************)
Constructed == pc \notin {"new", "rejected"}

StepPhases == {"cg", "x0", "adapt", "backtrack", "linesearch", "update"}

\* the differences that _adapt_damping divides, in the step's adaptation
AdaptDf == RSub(hist.adapt.f_step, hist.adapt.f_0)

AdaptDm == RSub(hist.adapt.m_step, hist.adapt.m_0)

\* C1: after every call of _adapt_damping with a reduction ratio
\* rho = (f_step - f_0) / (m_step - m_0), the damping is 3/2 times the
\* damping before when rho < 1/4, 2/3 times it when rho > 3/4, and the
\* damping before when 1/4 <= rho <= 3/4.
C1_DampingRule ==
    (hist.adapt.ran /\ AdaptDm # R(0)) =>
        LET rho == RDiv(AdaptDf, AdaptDm)
            d   == hist.adapt.before
        IN  /\ RLt(rho, <<1, 4>>) => damping = RMul(d, <<3, 2>>)
            /\ RLt(<<3, 4>>, rho) => damping = RMul(d, <<2, 3>>)
            /\ (RLe(<<1, 4>>, rho) /\ RLe(rho, <<3, 4>>)) => damping = d

\* a call with rho = 1/4 exactly, which left a positive damping unchanged
C1_Witness ==
    /\ hist.adapt.ran
    /\ AdaptDm # R(0)
    /\ RDiv(AdaptDf, AdaptDm) = <<1, 4>>
    /\ RLt(R(0), damping)
    /\ damping = hist.adapt.before

\* C2: a call of _adapt_damping with m_step - m_0 = 0 leaves the damping
\* unchanged.
C2_ZeroDenominatorSkips ==
    (hist.adapt.ran /\ AdaptDm = R(0)) => damping = hist.adapt.before

\* C3: the constructor raises for every lr <= 0, so that the learning rate
\* of an optimizer that exists is positive.
C3_NonPositiveLrRejected == Constructed => RLt(R(0), opt.lr)

(***************************************************************************)
(* Properties of the constructor                                           *)
(***************************************************************************)
\* C4: an optimizer exists only with a curvature option among "hessian" and
\* "ggn", a damping >= 0 and a cg_max_iter that is None or >= 1; a rejected
\* construction leaves no optimizer state, and only the constructor raises.
C4_InvalidConfigRejected ==
    /\ Constructed =>
          /\ opt.curvature_opt \in {"hessian", "ggn"}
          /\ RLe(R(0), opt.asked.damping)
          /\ (IsNone(opt.cg_max_iter) \/ Val(opt.cg_max_iter) >= 1)
          /\ raised = "none"
    /\ pc = "rejected" =>
          /\ raised \in {"curvature_opt", "damping", "cg_max_iter", "lr",
                         "param_groups"}
          /\ opt = NoOpt /\ x0 = None /\ steps = 0 /\ hist = NoHist
    /\ raised # "none" => pc = "rejected"

\* a construction rejected for its cg_max_iter
C4_Witness == pc = "rejected" /\ raised = "cg_max_iter"

\* C5: an optimizer constructed with damping = 0 and adapt_damping = True has
\* the adaptation switched off, with a warning: no step runs _adapt_damping
\* or evaluates the objective for it, and the damping stays 0.
C5_ZeroDampingNotAdapted ==
    (Constructed /\ opt.asked.damping = R(0) /\ opt.asked.adapt_damping) =>
        /\ ~opt.adapt_damping
        /\ opt.warned
        /\ ~hist.adapt.ran
        /\ hist.evals.adapt = 0
        /\ "adapt" \notin {hist.log[i] : i \in 1..Len(hist.log)}
        /\ damping = R(0)

\* two completed steps of such an optimizer
C5_Witness ==
    /\ pc = "idle"
    /\ steps >= 2
    /\ opt.asked.damping = R(0)
    /\ opt.asked.adapt_damping

\* C6: the damping of an optimizer is >= 0 in every state, and a damping
\* that started > 0 stays > 0.
C6_DampingNonNegative ==
    Constructed =>
        /\ RLe(R(0), damping)
        /\ RLt(R(0), opt.asked.damping) => RLt(R(0), damping)

\* a damping decreased by two steps
C6_Witness ==
    /\ pc = "idle"
    /\ steps >= 2
    /\ RLt(R(0), damping)
    /\ RLe(damping, RMul(<<4, 9>>, opt.asked.damping))

(***************************************************************************)
(* Properties of the step                                                  *)
(***************************************************************************)
\* The phase at pc can be taken: the backtracking has a checkpoint to return
\* and the line search a multiplier (the other phases need nothing)
CanProceed ==
    /\ (pc = "backtrack" /\ opt.use_cg_backtracking) =>
          BestCheckpoints(args.forward, params_vec, traj.x) # {}
    /\ (pc = "linesearch" /\ opt.use_linesearch) =>
          LsResults(args.forward, params_vec, args.grad, step_vec, opt.lr) # {}

\* C7: a negative reduction ratio raises a warning, multiplies the damping
\* by 3/2, and does not abort the step: nothing is raised and every phase up
\* to the parameter update can be taken.
C7_NegativeRhoNonFatal ==
    (hist.adapt.ran /\ AdaptDm # R(0) /\ RLt(RDiv(AdaptDf, AdaptDm), R(0))) =>
        /\ hist.warned
        /\ damping = RMul(hist.adapt.before, <<3, 2>>)
        /\ raised = "none"
        /\ pc \in {"backtrack", "linesearch", "update", "idle"}
        /\ CanProceed

\* a step with a negative reduction ratio that ran to its parameter update
C7_Witness ==
    /\ pc = "idle"
    /\ hist.adapt.ran
    /\ AdaptDm # R(0)
    /\ RLt(RDiv(AdaptDf, AdaptDm), R(0))
    /\ hist.warned
    /\ hist.log = <<"forward", "cg", "x0", "adapt", "backtrack", "linesearch",
                    "update">>

\* the update step and the multiplier that the step has to use
ChosenStep == IF opt.use_cg_backtracking THEN traj.x[best] ELSE Last(traj.x)

Multiplier == IF opt.use_linesearch THEN lr ELSE opt.lr

\* C8: at the end of a step the parameters are those at its start plus the
\* multiplier times the chosen step: the chosen step is a checkpoint with the
\* lowest objective when backtracking is on and the final cg-iterate
\* otherwise; the multiplier is a result of the line search when it is on
\* and the constant lr otherwise, and then the line search is not called.
C8_CommitRule ==
    (pc = "idle" /\ steps >= 1) =>
        /\ params = VAdd(hist.params0, VScale(Multiplier, ChosenStep))
        /\ opt.use_cg_backtracking =>
              best \in BestCheckpoints(args.forward, hist.params0, traj.x)
        /\ opt.use_linesearch =>
              /\ hist.ls_calls = 1
              /\ lr \in LsResults(args.forward, hist.params0, args.grad,
                                  ChosenStep, opt.lr)
        /\ ~opt.use_linesearch => (hist.ls_calls = 0 /\ hist.evals.ls = 0)

\* the end of a step that moved the parameters by half of an inner
\* checkpoint of the cg-run
C8_Witness ==
    /\ pc = "idle"
    /\ steps >= 1
    /\ opt.use_cg_backtracking /\ opt.use_linesearch
    /\ best > 1 /\ best < Len(traj.x)
    /\ lr = <<1, 2>>
    /\ params # hist.params0

\* the index of the step in progress, or of the last one (0 is the first)
StepIndex == IF pc = "idle" THEN steps - 1 ELSE steps

\* C9: the cg-run of the first step has no initial guess and starts from
\* zero; the cg-run of every later step starts from cg_decay_x0 times the
\* final cg-iterate of the step before, whatever checkpoint and multiplier
\* that step used.
C9_WarmStart ==
    (Constructed /\ StepIndex >= 0 /\ pc # "cg") =>
        IF StepIndex = 0
        THEN hist.cg_x0 = None /\ traj.x[1] = ZeroVec
        ELSE /\ hist.cg_x0 = Some(VScale(opt.cg_decay_x0, Val(hist.prev_final)))
             /\ traj.x[1] = VScale(opt.cg_decay_x0, Val(hist.prev_final))

\* a second cg-run after a step whose update was not its final cg-iterate
C9_Witness ==
    /\ pc = "x0"
    /\ StepIndex = 1
    /\ Val(hist.prev_final) # ZeroVec
    /\ Val(hist.prev_step_vec) # Val(hist.prev_final)
    /\ Val(hist.prev_lr) # R(1)
    /\ traj.x[1] = VScale(opt.cg_decay_x0, Val(hist.prev_final))

\* the cap on the iterations of the step's cg-run
CgCap == IF IsNone(opt.cg_max_iter) THEN Len(args.grad) ELSE Val(opt.cg_max_iter)

PhaseRank(p) ==
    CASE p = "cg" -> 1 [] p = "x0" -> 2 [] p = "adapt" -> 3
      [] p = "backtrack" -> 4 [] p = "linesearch" -> 5 [] p = "update" -> 6
      [] p = "idle" -> 7 [] OTHER -> 0

\* no phase raises or gets stuck, and the loops keep to their caps
StepBounded ==
    pc \in StepPhases \cup {"idle"} =>
        /\ traj.iters <= CgCap
        /\ hist.evals.ls <= LsMaxAttempts + 1
        /\ raised = "none"
        /\ CanProceed

\* every phase taken leads to the next one
PhaseAdvances == pc \in StepPhases => PhaseRank(pc') = PhaseRank(pc) + 1

\* C10: a step terminates without raising: the cg-run makes at most
\* cg_max_iter iterations, the line search tries at most its cap of
\* multipliers, nothing is raised, every phase can be taken, and every
\* phase taken leads to the next one, up to the parameter update.
C10_StepTerminates == []StepBounded /\ [][PhaseAdvances]_vars

\* three steps in a row with the adaptation, the backtracking and the line
\* search on, the last with a cg-run at its cap
C10_Witness ==
    /\ pc = "idle"
    /\ steps >= 3
    /\ opt.adapt_damping /\ opt.use_cg_backtracking /\ opt.use_linesearch
    /\ traj.iters = CgCap

(***************************************************************************)
(* Properties of cg                                                        *)
(***************************************************************************)
\* the call of cg in `args` with every iterate stored
CgEveryIterate == CgCall([args EXCEPT !.store_x_at_iters = None], args.M)

\* C11: the trajectory that cg returns is not empty, its first entry is the
\* initial guess (zero when x0 is None), its last entry is the last iterate
\* that cg computed, whatever the grid, and there are as many model values
\* as iterates.
C11_TrajectoryEndpoints ==
    pc = "cg_done" =>
        /\ Len(traj.x) >= 1
        /\ traj.x[1] = (IF IsNone(args.x0) THEN ZeroVec ELSE Val(args.x0))
        /\ traj.iters = CgEveryIterate.iters
        /\ Last(traj.x) = Last(CgEveryIterate.x)
        /\ Len(traj.m) = Len(traj.x)

\* a run of two iterations with the empty grid and an initial guess
C11_Witness ==
    /\ pc = "cg_done"
    /\ args.store_x_at_iters = Some({})
    /\ ~IsNone(args.x0)
    /\ traj.iters = 2
    /\ Len(traj.x) = 2
    /\ Last(traj.x) # traj.x[1]

\* the system matrix is symmetric positive definite
IsSPD(A) ==
    /\ RLt(R(0), A[1])
    /\ RLt(R(0), RSub(RMul(A[1], A[3]), RMul(A[2], A[2])))

\* the residual b - A x of the final iterate
FinalResidual == VSub(args.b, MatVec(args.A, Last(traj.x)))

\* C12: for a symmetric positive definite A, without the early-stopping
\* heuristic and with max_iter = 10 * dim, the final iterate x of cg has
\* ||A x - b|| <= max(tol * ||b||, atol).
C12_ResidualBound ==
    (/\ pc = "cg_done"
     /\ IsSPD(args.A)
     /\ ~args.martens_conv_crit
     /\ args.max_iter = Some(20)) =>
        \/ LeqOverSq(Dot(FinalResidual, FinalResidual), Dot(args.b, args.b),
                     args.tols[1])
        \/ LeqOverSq(Dot(FinalResidual, FinalResidual), R(1), args.tols[2])

\* such a run of two iterations from an initial guess, with the default
\* tolerances and a matrix that is not diagonal
C12_Witness ==
    /\ pc = "cg_done"
    /\ IsSPD(args.A) /\ args.A[2] # R(0)
    /\ ~args.martens_conv_crit
    /\ args.max_iter = Some(20)
    /\ args.tols = <<TolInv, AtolInv>>
    /\ ~IsNone(args.x0)
    /\ args.b # ZeroVec
    /\ traj.iters = 2

\* the quadratic 1/2 x.Ax - b.x that cg minimizes
QuadraticModel(A, b, x) ==
    RSub(RMul(<<1, 2>>, Dot(x, MatVec(A, x))), Dot(b, x))

\* C13: every model value that cg returns, also from a run that the
\* early-stopping heuristic ended, is the value of the quadratic
\* 1/2 x.Ax - b.x at the iterate it is stored with.
C13_ModelValues ==
    pc = "cg_done" =>
        \A i \in 1..Len(traj.x) :
            traj.m[i] = QuadraticModel(args.A, args.b, traj.x[i])

\* a run that the early-stopping heuristic ended after its first iteration,
\* before the residual test and the cap
C13_Witness ==
    /\ pc = "cg_done"
    /\ args.martens_conv_crit
    /\ args.max_iter = Some(20)
    /\ traj.iters = 1
    /\ Len(traj.m) = 2
    /\ traj.m[2] # traj.m[1]
    /\ ~Converged(FinalResidual, args.b, args.tols[1], args.tols[2])
    /\ CgCall([args EXCEPT !.martens_conv_crit = FALSE], args.M).iters = 2

\* the call of cg in `args` without a preconditioner
CgUnpreconditioned == CgCall(args, NoM)

NewtonConfig ==
    /\ opt.curvature_opt = "hessian"
    /\ opt.asked.damping = R(0)
    /\ ~opt.asked.adapt_damping
    /\ ~opt.use_cg_backtracking
    /\ ~opt.use_linesearch
    /\ opt.lr = R(1)

\* the objective of the step is a convex quadratic 1/2 p.Qp + c.p whose
\* gradient and Hessian are the grad and the mvp of the step
IsNewtonProblem ==
    /\ IsSPD(args.forward.Q)
    /\ args.mvp = args.forward.Q
    /\ args.grad = VAdd(MatVec(args.forward.Q, hist.params0), args.forward.c)

\* the minimizer -Q^{-1} c of 1/2 p.Qp + c.p, by Cramer's rule
Minimizer(F) ==
    LET det == RSub(RMul(F.Q[1], F.Q[3]), RMul(F.Q[2], F.Q[2]))
    IN  << RDiv(RSub(RMul(F.c[2], F.Q[2]), RMul(F.c[1], F.Q[3])), det),
           RDiv(RSub(RMul(F.c[1], F.Q[2]), RMul(F.c[2], F.Q[1])), det) >>

\* every component of x is within 1e-3 of that of y
Close(x, y) ==
    \A i \in 1..2 :
        /\ RLe(RSub(x[i], y[i]), <<1, 1000>>)
        /\ RLe(RSub(y[i], x[i]), <<1, 1000>>)

TrialEvals == hist.evals.adapt + hist.evals.bt + hist.evals.ls

\* the steps that tfunc is called with: the checkpoints of the cg-run and
\* the multiples of the update step that the line search tries
TrialCandidates ==
    {traj.x[i] : i \in 1..Len(traj.x)}
    \cup {VScale(LsAlpha(opt.lr, k), step_vec) : k \in 0..LsMaxAttempts}

\* C16 as stated: from the start of a step to its parameter update, the
\* parameters of the model are those at the start of the step.
C16_OnlyCommitWrites == pc \in StepPhases => params = hist.params0

\* C16, amended: in a step the parameters are written by the calls of tfunc
\* and by the parameter update only.  Up to the first call of tfunc they are
\* those at the start of the step; a call of tfunc leaves them at the backup
\* plus the step it was called with (after the adaptation: the final
\* cg-iterate); the backup stays the parameters at the start of the step;
\* and the parameter update writes last.
C16_TrialAndCommitWrites ==
    /\ pc \in {"cg", "x0", "adapt"} => params = hist.params0
    /\ pc \in {"backtrack", "linesearch", "update"} =>
          /\ params_vec = hist.params0
          /\ TrialEvals = 0 => params = hist.params0
          /\ TrialEvals > 0 =>
                \E s \in TrialCandidates : params = VAdd(hist.params0, s)
    /\ (pc = "backtrack" /\ opt.adapt_damping) =>
          params = VAdd(hist.params0, Last(traj.x))
    /\ (pc = "idle" /\ steps >= 1) => hist.log[Len(hist.log)] = "update"

\* a step whose calls of tfunc left the parameters neither where the step
\* started nor where its update puts them
C16_Witness ==
    /\ pc = "update"
    /\ TrialEvals > 0
    /\ params # hist.params0
    /\ params # VAdd(hist.params0, VScale(lr, step_vec))
    /\ params_vec = hist.params0

(***************************************************************************)
(* Properties of the order of the phases                                   *)
(***************************************************************************)
\* the phases of a step of this optimizer, in the order of the spec
ExpectedLog ==
    <<"forward", "cg", "x0">>
    \o (IF opt.adapt_damping THEN <<"adapt">> ELSE <<>>)
    \o (IF opt.use_cg_backtracking THEN <<"backtrack">> ELSE <<>>)
    \o (IF opt.use_linesearch THEN <<"linesearch">> ELSE <<>>)
    \o <<"update">>

ComesBefore(q, p) == PhaseRank(q) < PhaseRank(p)

\* the phases of ExpectedLog that come before the phase p
RECURSIVE PhasesBefore(_, _)
PhasesBefore(log, p) ==
    IF log = <<>> THEN <<>>
    ELSE IF ComesBefore(Head(log), p)
         THEN <<Head(log)>> \o PhasesBefore(Tail(log), p)
         ELSE <<>>

\* C17: the phases of a step run in the order forward pass, cg, warm start,
\* adaptation, backtracking, line search, parameter update; a phase that is
\* switched on runs once, one that is switched off does not run, and the
\* parameter update is last.
C17_PhaseOrder ==
    (pc \in StepPhases \/ (pc = "idle" /\ steps >= 1)) =>
        /\ hist.log = PhasesBefore(ExpectedLog, pc)
        /\ hist.evals.fwd = 1
        /\ hist.x0_writes = (IF ComesBefore("x0", pc) THEN 1 ELSE 0)
        /\ hist.adapt.ran = (opt.adapt_damping /\ ComesBefore("adapt", pc))
        /\ (hist.evals.bt > 0) =
              (opt.use_cg_backtracking /\ ComesBefore("backtrack", pc))
        /\ hist.ls_calls =
              (IF opt.use_linesearch /\ ComesBefore("linesearch", pc)
               THEN 1 ELSE 0)

\* the end of a second step with the backtracking on and the adaptation and
\* the line search off
C17_Witness ==
    /\ pc = "idle"
    /\ steps = 2
    /\ hist.log = <<"forward", "cg", "x0", "backtrack", "update">>
    /\ ~opt.adapt_damping /\ ~opt.use_linesearch

(***************************************************************************)
(* Properties of the persistent state                                      *)
(***************************************************************************)
\* what a step has done to x0 and to the damping so far
C18_WrittenOnce ==
    /\ pc \in StepPhases =>
          /\ hist.x0_writes = (IF ComesBefore("x0", pc) THEN 1 ELSE 0)
          /\ ~hist.adapt.ran => damping = hist.damping0
          /\ hist.adapt.ran =>
                /\ hist.adapt.before = hist.damping0
                /\ damping \in {hist.damping0, RMul(hist.damping0, <<3, 2>>),
                                RMul(hist.damping0, <<2, 3>>)}
    /\ (pc = "idle" /\ steps >= 1) =>
          /\ hist.x0_writes = 1
          /\ x0 = Some(VScale(opt.cg_decay_x0, Last(traj.x)))
    /\ (Constructed /\ ~opt.adapt_damping) => damping = opt.asked.damping

\* only the constructor and the adaptation, when it is on, change the
\* damping, and only the phase after the cg-run changes x0
C18_Frame ==
    /\ damping' # damping =>
          \/ pc = "new"
          \/ pc = "adapt" /\ opt.adapt_damping
    /\ x0' # x0 => pc = "x0"

\* C18: a step writes x0 once, after the cg-run, and changes the damping at
\* most once, in the adaptation and only when it is on; nothing else, also
\* not get_preconditioner, changes x0 or the damping, so that without the
\* adaptation the damping stays the one of the construction.
C18_StateOwnership == []C18_WrittenOnce /\ [][C18_Frame]_vars

\* get_preconditioner called after two steps that adapted the damping
C18_Witness ==
    /\ pc = "idle"
    /\ steps >= 2
    /\ ~IsNone(hist.precond_damping)
    /\ Val(hist.precond_damping) = damping
    /\ damping # opt.asked.damping
    /\ hist.x0_writes = 1

(***************************************************************************)
(* Properties of the damped system of a step                               *)
(***************************************************************************)
\* the matrix H + d * I
DampedMatrix(H, d) == <<RAdd(H[1], d), H[2], RAdd(H[3], d)>>

\* the quadratic model of the step's system with the damping d
StepModel(d, x) ==
    QuadraticModel(DampedMatrix(args.mvp, d), VScale(R(-1), args.grad), x)

\* C19: the system that the cg-run of a step solves has the damping that
\* the optimizer held when the step began, the model values that the
\* adaptation of the step gets are those of that system, and the damping
\* that the adaptation sets is not used before the next step.
C19_DampingOfTheStep ==
    ((pc \in StepPhases /\ pc # "cg") \/ (pc = "idle" /\ steps >= 1)) =>
        /\ hist.cg_damping = hist.damping0
        /\ \A i \in 1..Len(traj.x) :
              traj.m[i] = StepModel(hist.damping0, traj.x[i])
        /\ pc \in {"x0", "adapt"} => damping = hist.damping0
        /\ hist.adapt.ran =>
              /\ hist.adapt.before = hist.damping0
              /\ hist.adapt.m_0 = StepModel(hist.damping0, traj.x[1])
              /\ hist.adapt.m_step = StepModel(hist.damping0, Last(traj.x))

\* a second step that solved the system with the damping that the first
\* step had set, and then changed the damping again
C19_Witness ==
    /\ pc = "backtrack"
    /\ steps = 1
    /\ hist.adapt.ran
    /\ hist.damping0 = RMul(opt.asked.damping, <<3, 2>>)
    /\ damping # hist.damping0
    /\ Last(traj.x) # traj.x[1]
    /\ hist.adapt.m_step # StepModel(damping, Last(traj.x))

(***************************************************************************)
(* Properties of the trial evaluations                                     *)
(***************************************************************************)
\* every call of tfunc so far was relative to the parameters at the start of
\* the step, not to those that the call before had left
C20_TrialsFromBackup ==
    /\ (pc \in {"backtrack", "linesearch", "update"} /\ hist.adapt.ran) =>
          /\ hist.adapt.f_0 =
                Forward(args.forward, VAdd(hist.params0, traj.x[1]))
          /\ hist.adapt.f_step =
                Forward(args.forward, VAdd(hist.params0, Last(traj.x)))
    /\ (pc = "backtrack" /\ opt.adapt_damping) =>
          params = VAdd(hist.params0, Last(traj.x))
    /\ (pc \in {"linesearch", "update"} /\ opt.use_cg_backtracking) =>
          /\ best \in BestCheckpoints(args.forward, hist.params0, traj.x)
          /\ pc = "linesearch" =>
                \E i \in 1..Len(traj.x) :
                    params = VAdd(hist.params0, traj.x[i])
    /\ (pc = "update" /\ opt.use_linesearch) =>
          \E k \in 0..LsMaxAttempts :
              params = VAdd(hist.params0, VScale(LsAlpha(opt.lr, k), step_vec))

\* the parameter update starts from the parameters at the start of the step,
\* wherever the calls of tfunc have left the parameters
C20_CommitFromBackup ==
    pc = "update" => params' = VAdd(hist.params0, VScale(lr, step_vec))

\* C20: every trial evaluation of the objective sets the parameters to those
\* at the start of the step plus the candidate step, and the parameters after
\* the step do not depend on the number, the order or the last of the
\* candidates evaluated.
C20_TrialsDoNotAccumulate ==
    []C20_TrialsFromBackup /\ [][C20_CommitFromBackup]_vars

\* a later step, from a warm start, whose adaptation and backtracking left
\* the parameters at a candidate that is not the step to take
C20_Witness ==
    /\ pc = "update"
    /\ steps >= 1
    /\ hist.adapt.ran
    /\ opt.use_cg_backtracking
    /\ traj.x[1] # ZeroVec
    /\ Len(traj.x) >= 2
    /\ params # hist.params0
    /\ params # VAdd(hist.params0, step_vec)

=============================================================================
